---- MODULE Spec2Model ----
(***************************************************************************)
(* Model of the FPL manager-statistics server.                             *)
(*                                                                         *)
(*   Spec       the analyze-manager handler of src/src/server.js: one      *)
(*              request, from validation through the upfront fetches, the  *)
(*              gameweek loop and the report.                              *)
(*   CacheSpec  getBootstrapData of src/unnamed/part_001: the module-level *)
(*              bootstrap cache under concurrent callers.                  *)
(*                                                                         *)
(* Every await of the handler is one action per outcome of the awaited     *)
(* call; upstream responses are drawn from small sets when they are read.  *)
(***************************************************************************)
EXTENDS Integers, Sequences, FiniteSets, TLC

\* ---------------------------------------------------------------- bounds
\* Largest current gameweek the bootstrap payload may announce.
MaxGW == 2
\* Number of picks in one gameweek's picks response (managerPicks.length).
SquadSize == 2
\* Number of players listed in the bootstrap payload (ids 1..NumPlayers).
NumPlayers == 2
\* Largest number of records in one player-summary history.
MaxHist == 1
\* Number of distinct overall ranks a manager-history record may carry.
MaxRank == 1
\* The overall ranks are the multiples of RankStep, large enough to be grouped
\* by toLocaleString.
RankStep == 1000
\* Number of getBootstrapData invocations.
MaxCalls == 3
\* Number of clock steps.
MaxTicks == 3
\* Clock steps per cache window.
TicksPerWindow == 2
\* Largest current gameweek seen by the batched handler.
MaxBatchGW == 6
\* Largest number of picks in one gameweek's picks response of the batched handler.
MaxPicks == 6

\* ------------------------------------------------------- program constants
\* Squad positions 1..StartingSlots are the starting eleven (pick.position <= 11).
StartingSlots == 11
\* JavaScript Infinity, the initial lowestPoints / highestRank: a value above
\* every points total and every rank the bounds can produce.
Infinity == 1000000
\* CACHE_DURATION of the bootstrap cache, in milliseconds.
CACHE_DURATION == 3600000
\* BATCH_SIZE of the batched handler: picks processed concurrently.
BATCH_SIZE == 5
\* gameweeks.slice(0, 5): the batched handler walks the last five gameweeks.
RecentWindow == 5
\* One clock step, in milliseconds.
TickMs == CACHE_DURATION \div TicksPerWindow

\* ------------------------------------------------------------ input domains
\* total_points of one history record.
Points == {-1, 0, 1}
\* pick.position values: both sides of the starting-eleven boundary.
Positions == {StartingSlots, StartingSlots + 1}
\* active_chip values: null, bench boost, triple captain, another chip.
Chips == {"none", "bboost", "3xc", "freehit"}
\* Ids of the players in playerData.elements.
PlayerIds == 1..NumPlayers
\* A pick may reference an element the bootstrap payload does not list.
UnknownId == NumPlayers + 1
PickValues == [element : PlayerIds \cup {UnknownId}, position : Positions, is_captain : BOOLEAN]
HistoryRecords == [round : 1..MaxGW, total_points : Points]
RECURSIVE SeqsUpTo(_, _)
SeqsUpTo(S, n) == IF n = 0 THEN {<<>>}
                  ELSE LET shorter == SeqsUpTo(S, n - 1)
                       IN shorter \cup {Append(s, x) : s \in {t \in shorter : Len(t) = n - 1}, x \in S}
HistoryResponses == SeqsUpTo(HistoryRecords, MaxHist)
\* req.params.managerId, as a sequence of characters.
ManagerIds == {<<"1", "2">>, <<"a", "b", "c">>, <<"1", "a">>, <<"-", "1">>}
Digits == {"0", "1", "2", "3", "4", "5", "6", "7", "8", "9"}
UpfrontKinds == {"bootstrap", "entry", "history", "standings"}

VARIABLES
  pc,                \* position of the handler
  managerId,         \* req.params.managerId
  upstreamCalls,     \* kinds of upstream calls issued for the request
  response,          \* [status, ...] once sent; status 0 before
  playerData,        \* bootstrap payload: the id of the event that is_current
  gw,                \* loop variable of the gameweek loop
  active_chip,       \* managerPicksData.active_chip of the gameweek
  pickIdx,           \* 1-based index of the pick being processed
  pick,              \* the pick last taken from managerPicks
  pickedElements,    \* elements of the picks taken from managerPicks so far
  playerHistory,     \* playerHistoryResponse.data.history fetched for it
  gwPoints,
  playerStats,       \* object keyed by player id
  insertOrder,       \* ids of playerStats in order of creation
  positionPoints,
  totalCaptaincyPoints,
  totalPointsActive,
  totalPointsLostOnBench,
  weeklyPoints,
  weeklyRanks,
  extrema,           \* highest/lowest points and ranks with their gameweeks
  bootstrapCache,    \* part_001: cached payload (0 = null)
  bootstrapCacheTime,\* part_001: timestamp of the cached payload (0 = null)
  clock,             \* part_001: Date.now()
  calls,             \* part_001: the getBootstrapData invocations, each with the now
                     \* it read, its state, the state of its upstream fetch, the
                     \* value it returned, and whether it started during a fetch
  bpc,               \* part_001: position of the batched analyze-manager handler
  bManagerId,        \* part_001: req.params.managerId
  bResponse,         \* part_001: [status, ...] once sent; status 0 before
  recentGameweeks,   \* part_001: the gameweeks the loop walks
  gwPos,             \* part_001: 1-based position of the loop in recentGameweeks
  picks,             \* part_001: pickResponse.data.picks, the elements picked
  batchStart,        \* part_001: i of the batch loop
  callbacks,         \* part_001: outcome of each callback of the current batch
  playerDataMap,     \* part_001: Map from player id to its fetched data, as the
                     \* sequence of its entries in insertion order
  analysisPlayerStats \* part_001: analysis.playerStats, an array

handlerVars == <<pc, managerId, upstreamCalls, response, playerData, gw, active_chip,
                 pickIdx, pick, pickedElements, playerHistory, gwPoints, playerStats,
                 insertOrder, positionPoints, totalCaptaincyPoints, totalPointsActive,
                 totalPointsLostOnBench, weeklyPoints, weeklyRanks, extrema>>
cacheVars == <<bootstrapCache, bootstrapCacheTime, clock, calls>>
batchVars == <<bpc, bManagerId, bResponse, recentGameweeks, gwPos, picks, batchStart,
               callbacks, playerDataMap, analysisPlayerStats>>
vars == <<handlerVars, cacheVars, batchVars>>

\* ------------------------------------------------------------ pure helpers
RECURSIVE SumSeq(_)
SumSeq(s) == IF s = <<>> THEN 0 ELSE Head(s) + SumSeq(Tail(s))

RECURSIVE SumOver(_, _)
SumOver(f, S) == IF S = {} THEN 0
                 ELSE LET x == CHOOSE y \in S : TRUE IN f[x] + SumOver(f, S \ {x})

\* Variant: the pattern is not anchored, /\d+/.
IsValidManagerIdUnanchored(id) == \E i \in 1..Len(id) : id[i] \in Digits

\* /^\d+$/.test(managerId)
IsValidManagerId(id) == Len(id) > 0 /\ \A i \in 1..Len(id) : id[i] \in Digits

\* playerData.elements.find(p => p.id == playerId): the element, for ids 1..NumPlayers.
ElementOf(id) == [id |-> id, team |-> id, element_type |-> ((id - 1) % 4) + 1]
HasElement(id) == id \in PlayerIds

\* ["GKP", "DEF", "MID", "FWD"][player.element_type - 1]
PositionName(t) == <<"GKP", "DEF", "MID", "FWD">>[t]
PositionNames == {"GKP", "DEF", "MID", "FWD"}

\* playerHistory.find(history => history.round === gw): index of the first match, 0 if none.
FindRound(history, g) ==
  LET hits == {i \in 1..Len(history) : history[i].round = g}
  IN IF hits = {} THEN 0 ELSE CHOOSE i \in hits : \A j \in hits : i <= j

\* Variant: the history is indexed by gameweek instead of searched by round.
PointsThisWeekByIndex(history, g) ==
  IF g <= Len(history) THEN history[g].total_points ELSE 0

\* gameweekHistory ? gameweekHistory.total_points : 0
PointsThisWeek(history, g) ==
  LET i == FindRound(history, g)
  IN IF i = 0 THEN 0 ELSE history[i].total_points

\* Variant: the boundary position is not a starter.
InStarting11Below(p) == p.position < StartingSlots

\* const inStarting11 = pick.position <= 11
InStarting11(p) == p.position <= StartingSlots
IsBenchBoost(chip) == chip = "bboost"
IsTripleCaptain(chip) == chip = "3xc"
CountedActive(p, chip) == InStarting11(p) \/ IsBenchBoost(chip)

\* Variant: the captain is always doubled, the triple-captain chip is ignored.
ActivePointsDoubleOnly(p, isCaptain, chip) == IF isCaptain THEN p * 2 ELSE p

\* let activePoints = pointsThisWeek; if (isCaptain) activePoints *= isTripleCaptain ? 3 : 2
ActivePoints(p, isCaptain, chip) ==
  IF isCaptain THEN p * (IF IsTripleCaptain(chip) THEN 3 ELSE 2) ELSE p

\* Variant: the base points, not the multiplied amount, go to the captaincy totals.
CapPointsBase(p, isCaptain, activePoints) == IF isCaptain THEN p ELSE 0

\* The amount lines 126-127 add to totalCaptaincyPoints and cappedPoints.
CapPoints(p, isCaptain, activePoints) == IF isCaptain THEN activePoints ELSE 0

\* Variant: the update sits outside the active gate.
AddAlways(total, active, amount) == total + amount

\* A total that is updated inside the active gate of line 122 only.
AddIfActive(total, active, amount) == IF active THEN total + amount ELSE total

\* Variant: the bench loss ignores the bench-boost chip.
BenchLossNoChip(p, pk, chip) == IF InStarting11(pk) THEN 0 ELSE p

\* totalPointsLostOnBench += pointsThisWeek, in the else branch of the active gate
BenchLoss(p, pk, chip) == IF CountedActive(pk, chip) THEN 0 ELSE p

NewStat(id) ==
  [name |-> id, team |-> ElementOf(id).team,
   position |-> PositionName(ElementOf(id).element_type),
   totalPointsActive |-> 0, gwInSquad |-> 0, starts |-> 0,
   cappedPoints |-> 0, playerPoints |-> 0]

\* Variant: the entries are stored most recent gameweek first.
StoreWeeklyReversed(w, g, v) == [w EXCEPT ![Len(w) + 1 - g] = v]

\* weeklyPoints[gw - 1] = gwPoints (0-based in the code, 1-based sequence here)
StoreWeekly(w, g, v) == [w EXCEPT ![g] = v]

NoExtrema ==
  [highestPoints |-> 0, highestPointsGW |-> 0,
   lowestPoints |-> Infinity, lowestPointsGW |-> 0,
   highestRank |-> Infinity, highestRankGW |-> 0,
   lowestRank |-> 0, lowestRankGW |-> 0]

UpdateExtrema(e, g, pts, rank) ==
  LET e1 == IF pts > e.highestPoints
            THEN [e EXCEPT !.highestPoints = pts, !.highestPointsGW = g] ELSE e
      e2 == IF pts < e1.lowestPoints
            THEN [e1 EXCEPT !.lowestPoints = pts, !.lowestPointsGW = g] ELSE e1
      e3 == IF rank < e2.highestRank
            THEN [e2 EXCEPT !.highestRank = rank, !.highestRankGW = g] ELSE e2
  IN IF rank > e3.lowestRank
     THEN [e3 EXCEPT !.lowestRank = rank, !.lowestRankGW = g] ELSE e3

\* Object.values(obj) of an object whose keys are all integer indices: the values
\* in ascending numeric key order, whatever the order of creation.
RECURSIVE ObjectValues(_, _)
ObjectValues(obj, keys) ==
  IF keys = {} THEN <<>>
  ELSE LET k == CHOOSE x \in keys : \A y \in keys : x <= y
       IN <<obj[k]>> \o ObjectValues(obj, keys \ {k})

\* Array.prototype.sort((a, b) => b[f] - a[f]): a stable sort, descending by
\* field f (ECMAScript 2019 requires the sort to be stable). One insertion step:
\* x goes after every element that is not smaller.
\* Variant: an element is placed before the elements it ties with.
RECURSIVE InsertDescBeforeTies(_, _, _)
InsertDescBeforeTies(sorted, x, f) ==
  IF sorted = <<>> THEN <<x>>
  ELSE IF Head(sorted)[f] > x[f]
       THEN <<Head(sorted)>> \o InsertDescBeforeTies(Tail(sorted), x, f)
       ELSE <<x>> \o sorted

RECURSIVE InsertDesc(_, _, _)
InsertDesc(sorted, x, f) ==
  IF sorted = <<>> THEN <<x>>
  ELSE IF Head(sorted)[f] >= x[f]
       THEN <<Head(sorted)>> \o InsertDesc(Tail(sorted), x, f)
       ELSE <<x>> \o sorted

RECURSIVE SortDescBy(_, _)
SortDescBy(s, f) ==
  IF s = <<>> THEN <<>>
  ELSE InsertDesc(SortDescBy(SubSeq(s, 1, Len(s) - 1), f), s[Len(s)], f)

\* Number.prototype.toLocaleString() in the default en-US locale: decimal digits
\* in groups of three separated by commas; Infinity prints as the infinity sign.
DigitChar(d) == <<"0", "1", "2", "3", "4", "5", "6", "7", "8", "9">>[d + 1]
RECURSIVE Decimal(_)
Decimal(n) == IF n < 10 THEN <<DigitChar(n)>>
              ELSE Decimal(n \div 10) \o <<DigitChar(n % 10)>>
RECURSIVE Grouped(_)
Grouped(n) ==
  IF n < 1000 THEN Decimal(n)
  ELSE Grouped(n \div 1000)
         \o <<",", DigitChar((n % 1000) \div 100), DigitChar((n % 100) \div 10),
              DigitChar(n % 10)>>
ToLocaleString(n) == IF n = Infinity THEN <<"Infinity sign">> ELSE Grouped(n)

NoPick == [element |-> 0, position |-> 0, is_captain |-> FALSE]
NoCalls == [c \in {} |-> 0]

\* ------------------------------------------------------------------- Init
Init ==
  /\ pc = "idle"
  /\ managerId = <<>>
  /\ upstreamCalls = {}
  /\ response = [status |-> 0]
  /\ playerData = [currentGameweek |-> 0]
  /\ gw = 0
  /\ active_chip = "none"
  /\ pickIdx = 0
  /\ pick = NoPick
  /\ pickedElements = {}
  /\ playerHistory = <<>>
  /\ gwPoints = 0
  /\ playerStats = NoCalls
  /\ insertOrder = <<>>
  /\ positionPoints = [p \in PositionNames |-> NoCalls]
  /\ totalCaptaincyPoints = 0
  /\ totalPointsActive = 0
  /\ totalPointsLostOnBench = 0
  /\ weeklyPoints = <<>>
  /\ weeklyRanks = <<>>
  /\ extrema = NoExtrema
  /\ bootstrapCache = 0
  /\ bootstrapCacheTime = 0
  /\ clock = TickMs
  /\ calls = <<>>
  /\ bpc = "idle"
  /\ bManagerId = <<>>
  /\ bResponse = [status |-> 0]
  /\ recentGameweeks = <<>>
  /\ gwPos = 0
  /\ picks = <<>>
  /\ batchStart = 0
  /\ callbacks = <<>>
  /\ playerDataMap = <<>>
  /\ analysisPlayerStats = <<>>

\* ------------------------------------------- analyze-manager (server.js)
\* Variant: the catch answers with the report built so far.
Fail500AnswersReport(cause) ==
  /\ response' = [status |-> 200, error |-> "Failed to analyze manager", logged |-> cause]
  /\ pc' = "done"

\* Lines 208-211: the catch logs the error and answers 500.
Fail500(cause) ==
  /\ response' = [status |-> 500, error |-> "Failed to analyze manager", logged |-> cause]
  /\ pc' = "done"

\* Lines 39-44: the id does not match /^\d+$/.
RejectManagerId ==
  /\ pc = "idle"
  /\ \E id \in ManagerIds :
       /\ ~IsValidManagerId(id)
       /\ managerId' = id
  /\ response' = [status |-> 400, error |-> "Invalid manager ID format"]
  /\ pc' = "done"
  /\ UNCHANGED <<upstreamCalls, playerData, gw, active_chip, pickIdx, pick, pickedElements,
                 playerHistory, gwPoints, playerStats, insertOrder, positionPoints,
                 totalCaptaincyPoints, totalPointsActive, totalPointsLostOnBench,
                 weeklyPoints, weeklyRanks, extrema, cacheVars, batchVars>>

\* Lines 46-53: the four upfront calls are issued together.
IssueUpfront ==
  /\ pc = "idle"
  /\ \E id \in ManagerIds :
       /\ IsValidManagerId(id)
       /\ managerId' = id
  /\ upstreamCalls' = upstreamCalls \cup UpfrontKinds
  /\ pc' = "upfront"
  /\ UNCHANGED <<response, playerData, gw, active_chip, pickIdx, pick, pickedElements,
                 playerHistory, gwPoints, playerStats, insertOrder, positionPoints,
                 totalCaptaincyPoints, totalPointsActive, totalPointsLostOnBench,
                 weeklyPoints, weeklyRanks, extrema, cacheVars, batchVars>>

\* Promise.all rejects (one of the four calls failed), or lines 60-61 throw (no
\* event is_current, no standings result): the catch answers 500.
UpfrontFail ==
  /\ pc = "upfront"
  /\ \E cause \in UpfrontKinds \cup {"no current event", "no standings result"} :
       Fail500(cause)
  /\ UNCHANGED <<managerId, upstreamCalls, playerData, gw, active_chip, pickIdx,
                 pick, pickedElements, playerHistory, gwPoints, playerStats, insertOrder, positionPoints,
                 totalCaptaincyPoints, totalPointsActive, totalPointsLostOnBench,
                 weeklyPoints, weeklyRanks, extrema, cacheVars, batchVars>>

\* Lines 55-82: the four responses arrive; the analysis state is initialised.
UpfrontOk ==
  /\ pc = "upfront"
  /\ \E g \in 1..MaxGW :
       /\ playerData' = [currentGameweek |-> g]
       /\ weeklyPoints' = [i \in 1..g |-> 0]
       /\ weeklyRanks' = [i \in 1..g |-> 0]
  /\ totalCaptaincyPoints' = 0
  /\ totalPointsActive' = 0
  /\ totalPointsLostOnBench' = 0
  /\ playerStats' = NoCalls
  /\ insertOrder' = <<>>
  /\ positionPoints' = [p \in PositionNames |-> NoCalls]
  /\ extrema' = NoExtrema
  /\ gw' = 1
  /\ pc' = "loop"
  /\ UNCHANGED <<managerId, upstreamCalls, response, active_chip, pickIdx, pick, pickedElements,
                 playerHistory, gwPoints, cacheVars, batchVars>>

\* Lines 84-92: the picks of gameweek gw arrive.
FetchPicksOk ==
  /\ pc = "loop"
  /\ gw <= playerData.currentGameweek
  /\ upstreamCalls' = upstreamCalls \cup {"picks"}
  /\ \E chip \in Chips : active_chip' = chip
  /\ pick' = NoPick
  /\ pickedElements' = {}
  /\ playerHistory' = <<>>
  /\ pickIdx' = 1
  /\ gwPoints' = 0
  /\ pc' = "pick"
  /\ UNCHANGED <<managerId, response, playerData, gw, playerStats,
                 insertOrder, positionPoints, totalCaptaincyPoints, totalPointsActive,
                 totalPointsLostOnBench, weeklyPoints, weeklyRanks, extrema, cacheVars, batchVars>>

\* Line 85 rejects: the catch answers 500.
FetchPicksFail ==
  /\ pc = "loop"
  /\ gw <= playerData.currentGameweek
  /\ upstreamCalls' = upstreamCalls \cup {"picks"}
  /\ Fail500("picks")
  /\ UNCHANGED <<managerId, playerData, gw, active_chip, pickIdx, pick, pickedElements,
                 playerHistory, gwPoints, playerStats, insertOrder, positionPoints,
                 totalCaptaincyPoints, totalPointsActive, totalPointsLostOnBench,
                 weeklyPoints, weeklyRanks, extrema, cacheVars, batchVars>>

\* Lines 94-97: the pick's element is not in playerData.elements: continue.
SkipPick ==
  /\ pc = "pick"
  /\ pickIdx <= SquadSize
  /\ \E p \in PickValues :
       /\ p.element \notin pickedElements
       /\ ~HasElement(p.element)
       /\ pick' = p
       /\ pickedElements' = pickedElements \cup {p.element}
  /\ playerHistory' = <<>>
  /\ pickIdx' = pickIdx + 1
  /\ UNCHANGED <<pc, managerId, upstreamCalls, response, playerData, gw, active_chip,
                 gwPoints, playerStats, insertOrder, positionPoints, totalCaptaincyPoints,
                 totalPointsActive, totalPointsLostOnBench, weeklyPoints, weeklyRanks,
                 extrema, cacheVars, batchVars>>

\* Line 99 rejects: the catch answers 500.
FetchSummaryFail ==
  /\ pc = "pick"
  /\ pickIdx <= SquadSize
  /\ \E p \in PickValues :
       /\ p.element \notin pickedElements
       /\ HasElement(p.element)
       /\ pick' = p
       /\ pickedElements' = pickedElements \cup {p.element}
  /\ playerHistory' = <<>>
  /\ upstreamCalls' = upstreamCalls \cup {"summary"}
  /\ Fail500("summary")
  /\ UNCHANGED <<managerId, playerData, gw, active_chip, pickIdx, gwPoints, playerStats,
                 insertOrder, positionPoints, totalCaptaincyPoints, totalPointsActive,
                 totalPointsLostOnBench, weeklyPoints, weeklyRanks, extrema, cacheVars, batchVars>>

\* Line 107: the stat of a player is created once, and then playerData.teams is
\* read at player.team - 1. Here the team list has no such entry: reading .name
\* of undefined throws and the catch answers 500.
AccumulateThrow ==
  /\ pc = "pick"
  /\ pickIdx <= SquadSize
  /\ \E p \in PickValues, h \in HistoryResponses :
       /\ p.element \notin pickedElements
       /\ HasElement(p.element)
       /\ p.element \notin DOMAIN playerStats
       /\ pick' = p
       /\ pickedElements' = pickedElements \cup {p.element}
       /\ playerHistory' = h
  /\ upstreamCalls' = upstreamCalls \cup {"summary"}
  /\ Fail500("team not listed")
  /\ UNCHANGED <<managerId, playerData, gw, active_chip, pickIdx, gwPoints, playerStats,
                 insertOrder, positionPoints, totalCaptaincyPoints, totalPointsActive,
                 totalPointsLostOnBench, weeklyPoints, weeklyRanks, extrema, cacheVars, batchVars>>

\* Lines 94-147: the pick's element is listed, its summary arrives, and the
\* continuation of the await accumulates the pick synchronously (when the stat is
\* created, the player's team is listed).
Accumulate ==
  /\ pc = "pick"
  /\ pickIdx <= SquadSize
  /\ \E p \in PickValues, h \in HistoryResponses :
       LET id == p.element
           isNew == id \notin DOMAIN playerStats
           pointsThisWeek == PointsThisWeek(h, gw)
           active == CountedActive(p, active_chip)
           activePoints == ActivePoints(pointsThisWeek, p.is_captain, active_chip)
           capPoints == CapPoints(pointsThisWeek, p.is_captain, activePoints)
           stat0 == IF isNew THEN NewStat(id) ELSE playerStats[id]
           stat1 == [stat0 EXCEPT !.playerPoints = @ + pointsThisWeek]
           stat2 == IF active
                    THEN [stat1 EXCEPT !.cappedPoints = @ + capPoints,
                                       !.totalPointsActive = @ + activePoints,
                                       !.starts = @ + (IF InStarting11(p) THEN 1 ELSE 0),
                                       !.gwInSquad = @ + 1]
                    ELSE stat1
           pos == stat0.position
           old == IF id \in DOMAIN positionPoints[pos]
                  THEN positionPoints[pos][id]
                  ELSE [name |-> stat0.name, points |-> 0]
       IN /\ id \notin pickedElements
          /\ HasElement(id)
          /\ pick' = p
          /\ pickedElements' = pickedElements \cup {id}
          /\ playerHistory' = h
          /\ playerStats' = [k \in DOMAIN playerStats \cup {id} |->
                               IF k = id THEN stat2 ELSE playerStats[k]]
          /\ insertOrder' = IF isNew THEN Append(insertOrder, id) ELSE insertOrder
          /\ totalCaptaincyPoints' = AddIfActive(totalCaptaincyPoints, active, capPoints)
          /\ totalPointsActive' = AddIfActive(totalPointsActive, active, activePoints)
          /\ gwPoints' = AddIfActive(gwPoints, active, activePoints)
          /\ positionPoints' =
               IF active
               THEN [positionPoints EXCEPT ![pos] =
                       [k \in DOMAIN positionPoints[pos] \cup {id} |->
                          IF k = id THEN [old EXCEPT !.points = @ + activePoints]
                          ELSE positionPoints[pos][k]]]
               ELSE positionPoints
          /\ totalPointsLostOnBench' =
               totalPointsLostOnBench + BenchLoss(pointsThisWeek, p, active_chip)
  /\ upstreamCalls' = upstreamCalls \cup {"summary"}
  /\ pickIdx' = pickIdx + 1
  /\ UNCHANGED <<pc, managerId, response, playerData, gw, active_chip,
                 weeklyPoints, weeklyRanks, extrema, cacheVars, batchVars>>

\* historyData.current.find(h => h.event === gw)?.overall_rank || 0: 0 stands for
\* a gameweek without a record.
RankLookups == {0} \cup {r * RankStep : r \in 1..MaxRank}

\* Lines 150-171: the end of one gameweek.
EndGameweek ==
  /\ pc = "pick"
  /\ pickIdx > SquadSize
  /\ \E gwRank \in RankLookups :
       /\ weeklyRanks' = StoreWeekly(weeklyRanks, gw, gwRank)
       /\ extrema' = UpdateExtrema(extrema, gw, gwPoints, gwRank)
  /\ weeklyPoints' = StoreWeekly(weeklyPoints, gw, gwPoints)
  /\ gw' = gw + 1
  /\ gwPoints' = 0
  /\ active_chip' = "none"
  /\ pickIdx' = 0
  /\ pick' = NoPick
  /\ pickedElements' = {}
  /\ playerHistory' = <<>>
  /\ pc' = "loop"
  /\ UNCHANGED <<managerId, upstreamCalls, response, playerData,
                 playerStats, insertOrder, positionPoints, totalCaptaincyPoints,
                 totalPointsActive, totalPointsLostOnBench, cacheVars, batchVars>>

\* Lines 174-207: the report.
Report ==
  [managerInfo |-> [totalPointsLostOnBench |-> totalPointsLostOnBench,
                    totalCaptaincyPoints |-> totalCaptaincyPoints,
                    currentGameweek |-> playerData.currentGameweek,
                    highestPoints |-> extrema.highestPoints,
                    highestPointsGW |-> extrema.highestPointsGW,
                    lowestPoints |-> extrema.lowestPoints,
                    lowestPointsGW |-> extrema.lowestPointsGW,
                    highestRank |-> ToLocaleString(extrema.highestRank),
                    highestRankGW |-> extrema.highestRankGW,
                    lowestRank |-> ToLocaleString(extrema.lowestRank),
                    lowestRankGW |-> extrema.lowestRankGW],
   playerStats |-> SortDescBy(ObjectValues(playerStats, DOMAIN playerStats),
                              "totalPointsActive"),
   positionSummary |->
     [p \in PositionNames |->
        LET players == ObjectValues(positionPoints[p], DOMAIN positionPoints[p])
        IN [position |-> p,
            totalPoints |-> SumSeq([i \in 1..Len(players) |-> players[i].points]),
            players |-> SortDescBy(players, "points")]],
   weeklyPoints |-> weeklyPoints,
   weeklyRanks |-> weeklyRanks]

Respond ==
  /\ pc = "loop"
  /\ gw > playerData.currentGameweek
  /\ response' = [status |-> 200, analysis |-> Report]
  /\ pc' = "done"
  /\ UNCHANGED <<managerId, upstreamCalls, playerData, gw, active_chip, pickIdx,
                 pick, pickedElements, playerHistory, gwPoints, playerStats, insertOrder, positionPoints,
                 totalCaptaincyPoints, totalPointsActive, totalPointsLostOnBench,
                 weeklyPoints, weeklyRanks, extrema, cacheVars, batchVars>>

Next ==
  \/ RejectManagerId
  \/ IssueUpfront
  \/ UpfrontFail
  \/ UpfrontOk
  \/ FetchPicksOk
  \/ FetchPicksFail
  \/ SkipPick
  \/ FetchSummaryFail
  \/ AccumulateThrow
  \/ Accumulate
  \/ EndGameweek
  \/ Respond

Spec == Init /\ [][Next]_vars

\* ------------------------------------------- getBootstrapData (part_001)
\* Variant: the age comparison is inverted.
IsFreshInverted(now) ==
  /\ bootstrapCache # 0
  /\ bootstrapCacheTime # 0
  /\ now - bootstrapCacheTime > CACHE_DURATION

\* Line 27: bootstrapCache && bootstrapCacheTime && (now - bootstrapCacheTime < CACHE_DURATION)
IsFresh(now) ==
  /\ bootstrapCache # 0
  /\ bootstrapCacheTime # 0
  /\ now - bootstrapCacheTime < CACHE_DURATION

Fetching == {i \in 1..Len(calls) : calls[i].st = "fetching"}

\* Date.now() advances.
Tick ==
  /\ clock < (MaxTicks + 1) * TickMs
  /\ clock' = clock + TickMs
  /\ UNCHANGED <<handlerVars, batchVars, bootstrapCache, bootstrapCacheTime, calls>>

\* Lines 26-29: a call finds the cache fresh and returns it without a fetch.
CallHit ==
  /\ Len(calls) < MaxCalls
  /\ IsFresh(clock)
  /\ calls' = Append(calls, [now |-> clock, st |-> "returned", upstream |-> "none",
                             ret |-> bootstrapCache, overlapped |-> Fetching # {}])
  /\ UNCHANGED <<handlerVars, batchVars, bootstrapCache, bootstrapCacheTime, clock>>

\* Lines 26-33: a call finds no fresh cache, issues the upstream fetch and awaits it.
CallMiss ==
  /\ Len(calls) < MaxCalls
  /\ ~IsFresh(clock)
  /\ calls' = Append(calls, [now |-> clock, st |-> "fetching", upstream |-> "pending",
                             ret |-> 0, overlapped |-> Fetching # {}])
  /\ UNCHANGED <<handlerVars, batchVars, bootstrapCache, bootstrapCacheTime, clock>>

\* Variant: the continuation stores the payload and leaves the timestamp alone.
FetchResolvePayloadOnly(i) ==
  /\ calls[i].st = "fetching"
  /\ bootstrapCache' = i
  /\ calls' = [calls EXCEPT ![i].st = "returned", ![i].upstream = "ok", ![i].ret = i]
  /\ UNCHANGED <<handlerVars, batchVars, bootstrapCacheTime, clock>>

\* Lines 34-36: the fetch of call i resolves; its continuation stores the payload
\* (identified by the call that fetched it) with the now the call read at its start.
FetchResolve(i) ==
  /\ calls[i].st = "fetching"
  /\ bootstrapCache' = i
  /\ bootstrapCacheTime' = calls[i].now
  /\ calls' = [calls EXCEPT ![i].st = "returned", ![i].upstream = "ok", ![i].ret = i]
  /\ UNCHANGED <<handlerVars, batchVars, clock>>

\* Variant: a failed refresh clears the cache.
FetchRejectClears(i) ==
  /\ calls[i].st = "fetching"
  /\ calls' = [calls EXCEPT ![i].st = "failed", ![i].upstream = "error"]
  /\ bootstrapCache' = 0
  /\ bootstrapCacheTime' = 0
  /\ UNCHANGED <<handlerVars, batchVars, clock>>

\* Line 31 rejects (timeout, network error, non-2xx): the call rejects too.
FetchReject(i) ==
  /\ calls[i].st = "fetching"
  /\ calls' = [calls EXCEPT ![i].st = "failed", ![i].upstream = "error"]
  /\ UNCHANGED <<handlerVars, batchVars, bootstrapCache, bootstrapCacheTime, clock>>

CacheNext ==
  \/ Tick
  \/ CallHit
  \/ CallMiss
  \/ \E i \in 1..Len(calls) : FetchResolve(i)
  \/ \E i \in 1..Len(calls) : FetchReject(i)

CacheSpec == Init /\ [][CacheNext]_vars

\* --------------------------- batched analyze-manager (part_001, lines 39-169)
\* !managerId || isNaN(managerId): the id is empty or does not convert to a number
\* (for ids made of digits, letters and "-": an optional sign and at least one digit).
IsNaN(id) ==
  LET body == IF id # <<>> /\ id[1] = "-" THEN Tail(id) ELSE id
  IN ~(body # <<>> /\ \A i \in 1..Len(body) : body[i] \in Digits)
BInvalidManagerId(id) == id = <<>> \/ IsNaN(id)

\* Array.from({length: currentGameweek}, (_, i) => currentGameweek - i).slice(0, 5)
RecentGameweeks(g) ==
  [i \in 1..(IF g < RecentWindow THEN g ELSE RecentWindow) |-> g + 1 - i]

\* The picks responses: n picks, whose elements cycle through the listed players
\* and one unlisted id.
PickLists == {[k \in 1..n |-> ((k - 1) % (NumPlayers + 1)) + 1] : n \in 0..MaxPicks}

\* playerDataMap.has(playerId)
MapHas(map, id) == \E i \in 1..Len(map) : map[i].key = id

\* Variant: the callback is left waiting for its summary fetch.
CallbackOutcomePending(map, id) == IF MapHas(map, id) THEN "fulfilled" ELSE "pending"

\* One callback of batchPicks.map(async pick => ...), up to its first await. The
\* body declares const playerData (line 119), so the playerData read at line 97,
\* inside "if (!playerDataMap.has(playerId))", is that binding before its
\* initialisation: a ReferenceError, thrown before the summary fetch is issued; the
\* callback's promise is rejected. With the id in the map the callback runs to its
\* end without awaiting.
CallbackOutcome(map, id) == IF MapHas(map, id) THEN "fulfilled" ELSE "ReferenceError"

\* Lines 123-134: the stat of the player is pushed unless one exists.
PushStat(stats, map, id) ==
  IF MapHas(map, id) /\ ~\E i \in 1..Len(stats) : stats[i].id = id
  THEN Append(stats, [id |-> id, totalPoints |-> 0, gamesPlayed |-> 0])
  ELSE stats

\* The callbacks of one batch, run one after the other by map().
RECURSIVE StatsAfterBatch(_, _, _)
StatsAfterBatch(stats, map, batch) ==
  IF batch = <<>> THEN stats
  ELSE StatsAfterBatch(PushStat(stats, map, Head(batch)), map, Tail(batch))

\* picks.slice(i, i + BATCH_SIZE)
BatchPicks(ps, i) ==
  SubSeq(ps, i + 1, IF i + BATCH_SIZE < Len(ps) THEN i + BATCH_SIZE ELSE Len(ps))

\* Lines 164-168: the catch answers 500 with the error's message as details.
BFail500(details) ==
  /\ bResponse' = [status |-> 500, error |-> "Failed to analyze manager",
                   details |-> details]
  /\ bpc' = "done"

\* Lines 41-44.
BRejectManagerId ==
  /\ bpc = "idle"
  /\ \E id \in ManagerIds :
       /\ BInvalidManagerId(id)
       /\ bManagerId' = id
  /\ bResponse' = [status |-> 400, error |-> "Invalid manager ID"]
  /\ bpc' = "done"
  /\ UNCHANGED <<handlerVars, cacheVars, recentGameweeks, gwPos, picks, batchStart,
                 callbacks, playerDataMap, analysisPlayerStats>>

\* Lines 49-53: getBootstrapData and the entry and history fetches are issued.
BIssueUpfront ==
  /\ bpc = "idle"
  /\ \E id \in ManagerIds :
       /\ ~BInvalidManagerId(id)
       /\ bManagerId' = id
  /\ bpc' = "upfront"
  /\ UNCHANGED <<handlerVars, cacheVars, bResponse, recentGameweeks, gwPos, picks,
                 batchStart, callbacks, playerDataMap, analysisPlayerStats>>

\* One of the three rejects.
BUpfrontFail ==
  /\ bpc = "upfront"
  /\ \E cause \in {"bootstrap", "entry", "history"} : BFail500(cause)
  /\ UNCHANGED <<handlerVars, cacheVars, bManagerId, recentGameweeks, gwPos, picks,
                 batchStart, callbacks, playerDataMap, analysisPlayerStats>>

\* Lines 55-85: the three resolve; the analysis is initialised.
BUpfrontOk ==
  /\ bpc = "upfront"
  /\ \E g \in 1..MaxBatchGW : recentGameweeks' = RecentGameweeks(g)
  /\ gwPos' = 1
  /\ playerDataMap' = <<>>
  /\ analysisPlayerStats' = <<>>
  /\ bpc' = "loop"
  /\ UNCHANGED <<handlerVars, cacheVars, bManagerId, bResponse, picks, batchStart,
                 callbacks>>

\* Lines 87-89: the picks of the gameweek arrive; without picks the batch loop
\* does not run and the gameweek loop goes on.
BFetchPicksOk ==
  /\ bpc = "loop"
  /\ gwPos <= Len(recentGameweeks)
  /\ \E ps \in PickLists :
       /\ picks' = ps
       /\ bpc' = IF ps = <<>> THEN "loop" ELSE "batch"
       /\ gwPos' = IF ps = <<>> THEN gwPos + 1 ELSE gwPos
  /\ batchStart' = 0
  /\ callbacks' = <<>>
  /\ UNCHANGED <<handlerVars, cacheVars, bManagerId, bResponse, recentGameweeks,
                 playerDataMap, analysisPlayerStats>>

\* Line 88 rejects.
BFetchPicksFail ==
  /\ bpc = "loop"
  /\ gwPos <= Len(recentGameweeks)
  /\ BFail500("picks")
  /\ UNCHANGED <<handlerVars, cacheVars, bManagerId, recentGameweeks, gwPos, picks,
                 batchStart, callbacks, playerDataMap, analysisPlayerStats>>

\* Lines 92-136: batchPicks.map runs every callback of the batch up to its first
\* await or to its end; Promise.all is then awaited.
BRunBatch ==
  /\ bpc = "batch"
  /\ LET batch == BatchPicks(picks, batchStart)
     IN /\ callbacks' = [k \in 1..Len(batch) |-> CallbackOutcome(playerDataMap, batch[k])]
        /\ analysisPlayerStats' = StatsAfterBatch(analysisPlayerStats, playerDataMap, batch)
  /\ bpc' = "joined"
  /\ UNCHANGED <<handlerVars, cacheVars, bManagerId, bResponse, recentGameweeks, gwPos,
                 picks, batchStart, playerDataMap>>

\* The await of Promise.all: it rejects with the first rejected callback and the
\* catch answers 500; with every callback fulfilled the batch loop goes on.
BJoinBatch ==
  /\ bpc = "joined"
  /\ IF \E k \in 1..Len(callbacks) : callbacks[k] # "fulfilled"
     THEN /\ BFail500("Cannot access 'playerData' before initialization")
          /\ UNCHANGED <<gwPos, batchStart>>
     ELSE /\ batchStart' = IF batchStart + BATCH_SIZE < Len(picks)
                           THEN batchStart + BATCH_SIZE ELSE 0
          /\ gwPos' = IF batchStart + BATCH_SIZE < Len(picks) THEN gwPos ELSE gwPos + 1
          /\ bpc' = IF batchStart + BATCH_SIZE < Len(picks) THEN "batch" ELSE "loop"
          /\ UNCHANGED bResponse
  /\ UNCHANGED <<handlerVars, cacheVars, bManagerId, recentGameweeks, picks, callbacks,
                 playerDataMap, analysisPlayerStats>>

\* Lines 139-162: the last-five summary of every map entry, the sort, res.json.
BRespond ==
  /\ bpc = "loop"
  /\ gwPos > Len(recentGameweeks)
  /\ bResponse' =
       [status |-> 200,
        analysis |-> [playerStats |-> SortDescBy(analysisPlayerStats, "totalPoints"),
                      last5GWPerformance |->
                        [i \in 1..Len(playerDataMap) |-> playerDataMap[i].key],
                      upcomingFixtures |->
                        [i \in 1..Len(playerDataMap) |-> playerDataMap[i].key]]]
  /\ bpc' = "done"
  /\ UNCHANGED <<handlerVars, cacheVars, bManagerId, recentGameweeks, gwPos, picks,
                 batchStart, callbacks, playerDataMap, analysisPlayerStats>>

BatchNext ==
  \/ BRejectManagerId
  \/ BIssueUpfront
  \/ BUpfrontFail
  \/ BUpfrontOk
  \/ BFetchPicksOk
  \/ BFetchPicksFail
  \/ BRunBatch
  \/ BJoinBatch
  \/ BRespond

BatchSpec == Init /\ [][BatchNext]_vars

\* ------------------------------ index-based revision (part_000, lines 72-169)
\* managerPicks.forEach((pick, index) => { ... }): the callback is an arrow
\* function without the async keyword.
ForEachCallbackIsAsync == FALSE
\* Its body holds "await axios.get(...)" (the player-summary fetch).
ForEachCallbackAwaits == TRUE
\* await is valid only in an async function: otherwise the module does not parse
\* (SyntaxError), no route is registered and no request is ever analysed.
IndexRevisionLoads == ForEachCallbackAwaits => ForEachCallbackIsAsync
\* The playerStats the index-based revision computes for a request: none when the
\* module does not load.
IndexRevisionStats(stats) == IF IndexRevisionLoads THEN stats ELSE NoCalls
\* const inStarting11 = index < 11 (index is 0-based)
InStarting11ByIndex(index) == index < StartingSlots
\* The picks drawn are the entries of the picks list around the boundary of the
\* starting eleven: the k-th pick drawn is the entry at 0-based index
\* StartingSlots - 2 + k.
IndexOf(k) == StartingSlots - 2 + k

\* ======================================================== claims, Spec
\* A numeric field of a player's stat, 0 while the stat does not exist.
Fld(stats, id, f) == IF id \in DOMAIN stats THEN stats[id][f] ELSE 0

\* Sum of totalPointsActive over the entries of playerStats.
ActiveSum == SumOver([id \in DOMAIN playerStats |-> playerStats[id].totalPointsActive],
                     DOMAIN playerStats)

\* The step that accumulates one pick of a listed player (lines 99-147 ran to the end).
AccStep ==
  /\ pc = "pick"
  /\ pc' = "pick"
  /\ pickIdx' = pickIdx + 1
  /\ pick'.element \in PlayerIds

\* The state right after such a step.
Accumulated == pc = "pick" /\ pickIdx > 1 /\ pick.element \in PlayerIds

\* The base points of the pick just accumulated.
Base == PointsThisWeek(playerHistory', gw)

\* C1: after every completed gameweek (the loop head) and in the report, the sum of
\* weeklyPoints equals the sum of totalPointsActive over all entries of playerStats.
C1_WeeklySumEqualsActiveSum ==
  /\ pc = "loop" => SumSeq(weeklyPoints) = ActiveSum
  /\ pc = "pick" => SumSeq(weeklyPoints) + gwPoints = ActiveSum
  /\ response.status = 200 =>
       LET r == response.analysis
       IN SumSeq(r.weeklyPoints) = SumSeq([i \in 1..Len(r.playerStats) |->
                                             r.playerStats[i].totalPointsActive])

C1_Witness ==
  /\ response.status = 200
  /\ Len(weeklyPoints) = 2
  /\ weeklyPoints[1] > 0
  /\ weeklyPoints[2] < 0
  /\ \A id \in PlayerIds : id \in DOMAIN playerStats /\ playerStats[id].totalPointsActive # 0

\* C2 as stated: every player's playerPoints is at least its totalPointsActive.
C2_RawAtLeastActive ==
  \A id \in DOMAIN playerStats :
    playerStats[id].playerPoints >= playerStats[id].totalPointsActive

\* C2 amended: a pick with non-negative base points never lowers the player's
\* playerPoints - (totalPointsActive - cappedPoints), which starts at 0: the raw
\* points stay at least the active points earned outside captaincy; and a pick that
\* is not an active captain adds to playerPoints at least what it adds to
\* totalPointsActive.
C2_RawAtLeastUncaptainedActive ==
  [][AccStep /\ Base >= 0 =>
       LET id == pick'.element
           dRaw == Fld(playerStats', id, "playerPoints") - Fld(playerStats, id, "playerPoints")
           dAct == Fld(playerStats', id, "totalPointsActive")
                     - Fld(playerStats, id, "totalPointsActive")
           dCap == Fld(playerStats', id, "cappedPoints") - Fld(playerStats, id, "cappedPoints")
       IN /\ dRaw >= dAct - dCap
          /\ dCap >= 0
          /\ (~pick'.is_captain => dRaw >= dAct)]_vars

C2_Witness ==
  /\ Accumulated
  /\ pick.is_captain
  /\ active_chip = "3xc"
  /\ playerStats[pick.element].playerPoints = 1
  /\ playerStats[pick.element].totalPointsActive = 3
  /\ playerStats[pick.element].cappedPoints = 3

\* C3: a pick counted active with base points p adds p*3 (captain under triple
\* captain), p*2 (captain under any other chip or none) or p (not captain) to the
\* player's totalPointsActive and to the gameweek total; for a captain the same
\* amount goes to cappedPoints and to totalCaptaincyPoints.
C3_CaptainMultiplier ==
  [][AccStep /\ (pick'.position <= 11 \/ active_chip = "bboost") =>
       LET id == pick'.element
           amount == IF pick'.is_captain
                     THEN (IF active_chip = "3xc" THEN Base * 3 ELSE Base * 2)
                     ELSE Base
           capAmount == IF pick'.is_captain THEN amount ELSE 0
       IN /\ Fld(playerStats', id, "totalPointsActive")
               = Fld(playerStats, id, "totalPointsActive") + amount
          /\ gwPoints' = gwPoints + amount
          /\ Fld(playerStats', id, "cappedPoints")
               = Fld(playerStats, id, "cappedPoints") + capAmount
          /\ totalCaptaincyPoints' = totalCaptaincyPoints + capAmount]_vars

C3_Witness ==
  /\ Accumulated
  /\ pick.is_captain
  /\ active_chip = "3xc"
  /\ gw = 2
  /\ PointsThisWeek(playerHistory, gw) = 1
  /\ playerStats[pick.element].cappedPoints = 5
  /\ totalCaptaincyPoints = 5

\* C4: a processed pick adds its base points to totalPointsLostOnBench exactly when
\* its position is above 11 and the chip is not bench boost, and leaves the total
\* unchanged otherwise; in a bench-boost week every pick is added to the gameweek total.
C4_BenchLossGate ==
  [][AccStep =>
       LET lost == pick'.position > 11 /\ active_chip # "bboost"
           amount == IF pick'.is_captain
                     THEN (IF active_chip = "3xc" THEN Base * 3 ELSE Base * 2)
                     ELSE Base
       IN /\ totalPointsLostOnBench' = totalPointsLostOnBench + (IF lost THEN Base ELSE 0)
          /\ active_chip = "bboost" => gwPoints' = gwPoints + amount
          /\ lost => gwPoints' = gwPoints]_vars

C4_Witness ==
  /\ Accumulated
  /\ gw = 2
  /\ active_chip = "bboost"
  /\ pick.position = 12
  /\ PointsThisWeek(playerHistory, gw) = 1
  /\ gwPoints = 1
  /\ totalPointsLostOnBench = 1

\* The player history has no record of gameweek g.
NoRound(history, g) == \A i \in 1..Len(history) : history[i].round # g

\* C5: when the player's history has no record of the gameweek being processed, the
\* points resolve to 0 and the pick is still accumulated: the stat exists, starts
\* grows by one for a starter, gwInSquad by one for an active pick, and the point
\* totals are unchanged; the request fails at that pick only when the summary fetch
\* itself fails or the player's team is not listed.
C5_MissingRoundIsZero ==
  [][/\ AccStep /\ NoRound(playerHistory', gw) =>
          LET id == pick'.element
              starter == pick'.position <= 11
              active == starter \/ active_chip = "bboost"
          IN /\ id \in DOMAIN playerStats'
             /\ Fld(playerStats', id, "playerPoints") = Fld(playerStats, id, "playerPoints")
             /\ Fld(playerStats', id, "totalPointsActive")
                  = Fld(playerStats, id, "totalPointsActive")
             /\ Fld(playerStats', id, "starts")
                  = Fld(playerStats, id, "starts") + (IF starter THEN 1 ELSE 0)
             /\ Fld(playerStats', id, "gwInSquad")
                  = Fld(playerStats, id, "gwInSquad") + (IF active THEN 1 ELSE 0)
             /\ gwPoints' = gwPoints
             /\ totalPointsLostOnBench' = totalPointsLostOnBench
     /\ pc = "pick" /\ pc' = "done" => response'.logged \in {"summary", "team not listed"}]_vars

C5_Witness ==
  /\ Accumulated
  /\ gw = 2
  /\ playerData.currentGameweek = 2
  /\ playerHistory # <<>>
  /\ NoRound(playerHistory, gw)
  /\ pick.position <= 11
  /\ pick.element \notin {insertOrder[i] : i \in 1..(Len(insertOrder) - 1)}
  /\ playerStats[pick.element].starts = 1
  /\ playerStats[pick.element].gwInSquad = 1

RECURSIVE MaxSeq(_)
MaxSeq(s) == IF Len(s) = 1 THEN s[1]
             ELSE LET m == MaxSeq(Tail(s)) IN IF s[1] >= m THEN s[1] ELSE m
RECURSIVE MinSeq(_)
MinSeq(s) == IF Len(s) = 1 THEN s[1]
             ELSE LET m == MinSeq(Tail(s)) IN IF s[1] <= m THEN s[1] ELSE m
\* The earliest 1-based position of v in s.
Earliest(s, v) == CHOOSE i \in 1..Len(s) : s[i] = v /\ \A j \in 1..(i - 1) : s[j] # v

\* C6: in the report, highestPoints is the maximum of weeklyPoints and
\* highestPointsGW the earliest gameweek attaining it; lowestPoints is the minimum
\* and lowestPointsGW the earliest gameweek attaining it.
C6_PointsExtremaEarliest ==
  response.status = 200 =>
    LET w == response.analysis.weeklyPoints
        m == response.analysis.managerInfo
    IN /\ m.highestPoints = MaxSeq(w)
       /\ m.highestPointsGW = Earliest(w, MaxSeq(w))
       /\ m.lowestPoints = MinSeq(w)
       /\ m.lowestPointsGW = Earliest(w, MinSeq(w))

\* The invalid ids: empty, or with a character that is no decimal digit.
NotAllDigits(id) == id = <<>> \/ \E i \in 1..Len(id) : id[i] \notin Digits

\* C8: a request whose managerId is not a non-empty string of decimal digits is
\* answered 400 with {error: "Invalid manager ID format"}, and no upstream call is
\* issued for it.
C8_InvalidIdRejectedWithoutUpstream ==
  pc # "idle" /\ NotAllDigits(managerId) =>
    /\ pc = "done"
    /\ response = [status |-> 400, error |-> "Invalid manager ID format"]
    /\ upstreamCalls = {}

C8_Witness ==
  /\ pc = "done"
  /\ managerId = <<"1", "a">>
  /\ response.status = 400
  /\ upstreamCalls = {}

\* Position of a player id in the order of creation.
CreatedAt(id) == CHOOSE i \in 1..Len(insertOrder) : insertOrder[i] = id

\* The report lists every PlayerStat once, by non-increasing totalPointsActive.
SortedOnce(ps) ==
  /\ Len(ps) = Cardinality(DOMAIN playerStats)
  /\ \A id \in DOMAIN playerStats : \E i \in 1..Len(ps) : ps[i] = playerStats[id]
  /\ \A i, j \in 1..Len(ps) : i < j => ps[i].totalPointsActive >= ps[j].totalPointsActive

\* C10 as stated: players with equal totalPointsActive appear in the order in
\* which their stats were created.
C10_TiesInCreationOrder ==
  response.status = 200 =>
    LET ps == response.analysis.playerStats
    IN /\ SortedOnce(ps)
       /\ \A i, j \in 1..Len(ps) :
            i < j /\ ps[i].totalPointsActive = ps[j].totalPointsActive
              => CreatedAt(ps[i].name) < CreatedAt(ps[j].name)

\* C10 amended: the report lists every PlayerStat once, by non-increasing
\* totalPointsActive, and players with equal totalPointsActive appear in ascending
\* order of player id, whatever the order in which their stats were created.
C10_TiesInIdOrder ==
  response.status = 200 =>
    LET ps == response.analysis.playerStats
    IN /\ SortedOnce(ps)
       /\ \A i, j \in 1..Len(ps) :
            i < j /\ ps[i].totalPointsActive = ps[j].totalPointsActive
              => ps[i].name < ps[j].name

C10_Witness ==
  /\ response.status = 200
  /\ insertOrder = <<2, 1>>
  /\ playerStats[1].totalPointsActive = playerStats[2].totalPointsActive
  /\ playerStats[1].totalPointsActive # 0
  /\ response.analysis.playerStats[1].name = 1
  /\ response.analysis.playerStats[2].name = 2

\* C11 as stated: a picks fetch or a player-summary fetch that fails inside the
\* gameweek loop does not end the request with a 500 (the request still completes
\* with a report).
C11_FetchFailureIsolated ==
  ~(response.status = 500 /\ response.logged \in {"picks", "summary"})

\* C12: when the upfront stage fails (one of the four fetches rejects, or the
\* joined responses cannot be read), the request is answered 500 with an error
\* field, only the four upfront calls have been issued, and nothing more happens
\* for the request; a picks fetch is issued only from the loop, which is entered
\* only after the four upfront fetches were issued and all resolved.
C12_UpfrontFailureIsFatal ==
  [][/\ pc = "upfront" /\ pc' = "done" =>
          /\ response'.status = 500
          /\ "error" \in DOMAIN response'
          /\ upstreamCalls' = UpfrontKinds
     /\ pc = "done" => UNCHANGED handlerVars
     /\ "picks" \in upstreamCalls' =>
          /\ pc \in {"loop", "pick"}
          /\ UpfrontKinds \subseteq upstreamCalls
          /\ playerData.currentGameweek >= 1]_vars

C12_Witness ==
  /\ pc = "done"
  /\ response.status = 500
  /\ response.logged = "standings"
  /\ upstreamCalls = UpfrontKinds

\* C13 as stated: in the report, highestRank is the lowest value of weeklyRanks and
\* highestRankGW the earliest gameweek with it; lowestRank is the highest value of
\* weeklyRanks and lowestRankGW the earliest gameweek with it (ranks are reported
\* in their toLocaleString form).
C13_RankExtremaEarliest ==
  response.status = 200 =>
    LET w == response.analysis.weeklyRanks
        m == response.analysis.managerInfo
    IN /\ m.highestRank = ToLocaleString(MinSeq(w))
       /\ m.highestRankGW = Earliest(w, MinSeq(w))
       /\ m.lowestRank = ToLocaleString(MaxSeq(w))
       /\ m.lowestRankGW = Earliest(w, MaxSeq(w))

C16_Counters ==
  [][/\ AccStep =>
          LET id == pick'.element
              starter == pick'.position <= 11
              active == starter \/ active_chip = "bboost"
          IN /\ Fld(playerStats', id, "starts")
                  = Fld(playerStats, id, "starts") + (IF starter THEN 1 ELSE 0)
             /\ Fld(playerStats', id, "gwInSquad")
                  = Fld(playerStats, id, "gwInSquad") + (IF active THEN 1 ELSE 0)
             /\ Fld(playerStats', id, "playerPoints")
                  = Fld(playerStats, id, "playerPoints") + Base
     /\ \A id \in DOMAIN playerStats' :
          playerStats'[id].starts <= playerStats'[id].gwInSquad]_vars

C16_Witness ==
  /\ Accumulated
  /\ gw = 2
  /\ active_chip = "bboost"
  /\ pick.position = 12
  /\ playerStats[pick.element].starts = 1
  /\ playerStats[pick.element].gwInSquad = 2
  /\ playerStats[pick.element].playerPoints = 2

\* The step that takes a pick whose element the bootstrap payload does not list.
SkipStep ==
  /\ pc = "pick"
  /\ pickIdx' = pickIdx + 1
  /\ pick'.element \notin PlayerIds

\* What a skipped pick leaves alone: no summary fetch, no stat, no total changed,
\* and the loop goes on.
SkipFrame ==
  /\ pc' = "pick"
  /\ upstreamCalls' = upstreamCalls
  /\ UNCHANGED <<playerStats, positionPoints, gwPoints, weeklyPoints, totalPointsActive,
                 totalCaptaincyPoints, totalPointsLostOnBench>>

\* C17 as stated: a pick of a player the bootstrap payload does not list, or of a
\* listed player whose team is not in the team list, is skipped: no summary fetch,
\* no stat, no total changed, and the request does not fail because of it.
C17_MissingPlayerOrTeamSkipped ==
  [][/\ SkipStep => SkipFrame
     /\ ~(response'.status = 500 /\ response'.logged = "team not listed")]_vars

\* C19 as stated: in every report each of highestPointsGW, lowestPointsGW,
\* highestRankGW and lowestRankGW is a gameweek in 1..G, and the value reported with
\* it is the entry of weeklyPoints (of weeklyRanks, in its toLocaleString form) at
\* that gameweek.
C19_ExtremaGameweeksReal ==
  response.status = 200 =>
    LET a == response.analysis
        m == a.managerInfo
        G == m.currentGameweek
    IN /\ m.highestPointsGW \in 1..G
       /\ m.lowestPointsGW \in 1..G
       /\ m.highestRankGW \in 1..G
       /\ m.lowestRankGW \in 1..G
       /\ m.highestPoints = a.weeklyPoints[m.highestPointsGW]
       /\ m.lowestPoints = a.weeklyPoints[m.lowestPointsGW]
       /\ m.highestRank = ToLocaleString(a.weeklyRanks[m.highestRankGW])
       /\ m.lowestRank = ToLocaleString(a.weeklyRanks[m.lowestRankGW])

\* A season of one gameweek in which every pick was accumulated and the list order
\* agrees with the position field on who starts (the entry at index i has position
\* i + 1): the k-th stat created is the k-th pick, a starter by position when its
\* starts is 1.
OrderedSeason ==
  /\ playerData.currentGameweek = 1
  /\ Len(insertOrder) = SquadSize
  /\ \A k \in 1..SquadSize :
       playerStats[insertOrder[k]].starts = 1 <=> InStarting11ByIndex(IndexOf(k))

\* C18 as stated: when the picks list is ordered by position, the index-based
\* revision and the position-based revision produce the same totalPointsActive,
\* gwInSquad, starts, cappedPoints and playerPoints for every player.
C18_RevisionsAgree ==
  response.status = 200 /\ OrderedSeason =>
    LET other == IndexRevisionStats(playerStats)
    IN /\ DOMAIN other = DOMAIN playerStats
       /\ \A id \in DOMAIN playerStats :
            \A f \in {"totalPointsActive", "gwInSquad", "starts", "cappedPoints",
                      "playerPoints"} :
              other[id][f] = playerStats[id][f]

Fetched == {i \in 1..Len(calls) : calls[i].upstream # "none"}
\* All calls started less than one cache window apart.
WithinWindow == \A i, j \in 1..Len(calls) : calls[i].now - calls[j].now < CACHE_DURATION
NoFetchFailed == \A i \in 1..Len(calls) : calls[i].upstream # "error"

\* C7 as stated: calls that all start within one cache window issue at most one
\* upstream fetch, overlapping or not, provided the fetches succeed.
C7_AtMostOneFetch ==
  WithinWindow /\ NoFetchFailed => Cardinality(Fetched) <= 1

\* C7 amended: calls that all start within one cache window, none of them while
\* an earlier call's fetch is still in flight, issue at most one upstream fetch,
\* provided the fetches succeed.
C7_AtMostOneFetchSequential ==
  /\ WithinWindow
  /\ NoFetchFailed
  /\ \A i \in 1..Len(calls) : ~calls[i].overlapped
  => Cardinality(Fetched) <= 1

C7_Witness ==
  /\ Len(calls) = 3
  /\ WithinWindow
  /\ \A i \in 1..3 : calls[i].st = "returned" /\ ~calls[i].overlapped
  /\ calls[3].now > calls[1].now
  /\ Fetched = {1}
  /\ calls[3].ret = 1

\* C9: when the upstream fetch of a refresh fails, the cached payload and timestamp
\* stay exactly as they were and the call fails without a value.
C9_FailedRefreshKeepsCache ==
  [][\A i \in 1..Len(calls) :
       calls[i].upstream = "pending" /\ calls'[i].upstream = "error" =>
         /\ bootstrapCache' = bootstrapCache
         /\ bootstrapCacheTime' = bootstrapCacheTime
         /\ calls'[i].st = "failed"
         /\ calls'[i].ret = 0]_vars

C9_Witness ==
  \E i \in 1..Len(calls) :
    /\ calls[i].st = "failed"
    /\ bootstrapCache # 0
    /\ calls[i].now - bootstrapCacheTime >= CACHE_DURATION

\* C20 as stated: the stored timestamp never decreases, and the stored payload is
\* never replaced by the result of a refresh that started earlier than the refresh
\* whose result is stored.
C20_TimestampNeverDecreases ==
  [][/\ bootstrapCacheTime' >= bootstrapCacheTime
     /\ bootstrapCache # 0 /\ bootstrapCache' # bootstrapCache =>
          calls[bootstrapCache'].now >= calls[bootstrapCache].now]_vars

\* C20 amended: the payload and the timestamp change only together, in the one step
\* in which a pending fetch resolves, to that call's payload and the now that call
\* read at its start; so the stored pair is always empty or the payload of a
\* resolved call with that call's start time, even when a refresh that started
\* earlier resolves last and lowers the timestamp.
C20_PayloadAndTimestampTogether ==
  [][/\ bootstrapCache' # bootstrapCache \/ bootstrapCacheTime' # bootstrapCacheTime =>
          \E i \in 1..Len(calls) :
            /\ calls[i].upstream = "pending"
            /\ calls'[i].upstream = "ok"
            /\ calls'[i].ret = i
            /\ bootstrapCache' = i
            /\ bootstrapCacheTime' = calls[i].now
     /\ \/ bootstrapCache' = 0 /\ bootstrapCacheTime' = 0
        \/ /\ bootstrapCache' \in 1..Len(calls')
           /\ calls'[bootstrapCache'].upstream = "ok"
           /\ bootstrapCacheTime' = calls'[bootstrapCache'].now]_vars

C20_Witness ==
  /\ Len(calls) >= 2
  /\ calls[1].upstream = "ok"
  /\ calls[2].upstream = "ok"
  /\ calls[2].now > calls[1].now
  /\ bootstrapCache = 1
  /\ bootstrapCacheTime = calls[1].now

====
